---- MODULE Spec2Model ----
(***************************************************************************)
(* The Dart bridge dispatch functions of bridge/exports.go and             *)
(* bridge/QUICK_REFERENCE.go: every exported function takes a Dart port    *)
(* (the call token) and string arguments, decodes / validates them, does   *)
(* its (placeholder) engine work, marshals a result and answers through    *)
(* SendResponseToPort.                                                     *)
(*                                                                         *)
(* Go strings are sequences of chunks: a chunk is a run of plain ASCII     *)
(* text or one special character.  JSON text is a sequence of tokens.      *)
(***************************************************************************)
EXTENDS Integers, Sequences, FiniteSets, TLC

\* ------------------------------------------------------------------ bounds
\* the client's receive ports (call tokens) are 1..MaxToken; the client opens
\* one port per call, so a run has up to MaxToken calls, concurrent or not
MaxToken == 2

Tokens == 1..MaxToken

\* --------------------------------------------------------------- Go strings
\* a byte that is not valid UTF-8 (0xFF) and the rune U+FFFD json.Marshal
\* writes in its place
BadByte == "<0xFF>"
ReplacementRune == "<U+FFFD>"

EmptyName == <<>>
S3Box == <<"s3box">>
QuotedName == <<"my", "\"", "<", "box">>
RawName == <<"s3", BadByte>>

\* the identifier arguments the client passes (remoteName, name, itemID,
\* source, destination)
Names == {EmptyName, S3Box, QuotedName, RawName}

\* utf8.ValidString
ValidUTF8(s) == \A i \in 1..Len(s) : s[i] # BadByte

\* ------------------------------------------------------------------- values
\* a Go value held in a pointer field or an interface{}: kind k is one of
\* "nil", "bool", "num", "str"
Nil == [k |-> "nil", b |-> FALSE, n |-> 0, s |-> <<>>]
BoolVal(v) == [k |-> "bool", b |-> v, n |-> 0, s |-> <<>>]
IntVal(v) == [k |-> "num", b |-> FALSE, n |-> v, s |-> <<>>]
StrVal(v) == [k |-> "str", b |-> FALSE, n |-> 0, s |-> v]

ptrBool(v) == BoolVal(v)
ptrString(v) == StrVal(v)
ptrInt(v) == IntVal(v)

\* the fields of ConfigGeneralSettings in declaration order, their json tags
\* and their Go types
GeneralFields == <<"AllowLan", "BindAddress", "LogLevel", "Port", "SocksPort", "MixedPort", "RedirPort", "TProxyPort">>
GeneralTag == [AllowLan |-> "allowLan", BindAddress |-> "bindAddress", LogLevel |-> "logLevel", Port |-> "port", SocksPort |-> "socksPort", MixedPort |-> "mixedPort", RedirPort |-> "redirPort", TProxyPort |-> "tproxyPort"]
GeneralKind == [AllowLan |-> "bool", BindAddress |-> "str", LogLevel |-> "str", Port |-> "num", SocksPort |-> "num", MixedPort |-> "num", RedirPort |-> "num", TProxyPort |-> "num"]

\* &ConfigGeneralSettings{}: every pointer nil
ConfigGeneralSettings == [f \in {GeneralFields[i] : i \in 1..Len(GeneralFields)} |-> Nil]

\* ---------------------------------------------------------------- JSON text
Tok(kind) == [t |-> kind, n |-> 0, s |-> <<>>]
NumTok(v) == [t |-> "num", n |-> v, s |-> <<>>]
\* a string token holds the text between the quotes, escapes included
StrTok(e) == [t |-> "str", n |-> 0, s |-> e]
\* text the scanner rejects at its first invalid character
BadTok(raw) == [t |-> "bad", n |-> 0, s |-> <<raw>>]

\* encoding/json writes a double quote as backslash-quote, '<' as the escape
\* u003c and an invalid byte as the escape ufffd
EscapeChunk(ch) ==
    CASE ch = "\"" -> "\\\""
      [] ch = "<" -> "\\u003c"
      [] ch = BadByte -> "\\ufffd"
      [] OTHER -> ch

\* the decoder's unquote
UnescapeChunk(e) ==
    CASE e = "\\\"" -> "\""
      [] e = "\\u003c" -> "<"
      [] e = "\\ufffd" -> ReplacementRune
      [] OTHER -> e

Escape(s) == [i \in 1..Len(s) |-> EscapeChunk(s[i])]
Unescape(e) == [i \in 1..Len(e) |-> UnescapeChunk(e[i])]

\* the token json.Marshal writes for a scalar value
EncodeValue(v) ==
    CASE v.k = "bool" -> Tok(IF v.b THEN "true" ELSE "false")
      [] v.k = "num" -> NumTok(v.n)
      [] v.k = "str" -> StrTok(Escape(v.s))
      [] OTHER -> Tok("null")

\* the members of an object: keys is the sequence of json keys in output
\* order, val the value of each
RECURSIVE EncodeMembers(_, _)
EncodeMembers(keys, val) ==
    IF keys = <<>> THEN <<>>
    ELSE <<StrTok(<<keys[1]>>), Tok(":"), EncodeValue(val[keys[1]])>>
         \o (IF Len(keys) > 1 THEN <<Tok(",")>> ELSE <<>>)
         \o EncodeMembers(Tail(keys), val)

EncodeObject(keys, val) == <<Tok("{")>> \o EncodeMembers(keys, val) \o <<Tok("}")>>

\* the keys of the maps the handlers build, in the order sort.Strings gives
KeyOrder == <<"allowLan", "bindAddress", "count", "data", "key", "logLevel", "name", "port", "type", "url">>

SortedKeys(m) == SelectSeq(KeyOrder, LAMBDA k : k \in DOMAIN m)

\* json.Marshal of a map[string]interface{}: keys sorted; never an error for
\* string and int values
MarshalMap(m) == [data |-> EncodeObject(SortedKeys(m), m), err |-> ""]

\* MarshalGeneral with the omitempty options missing from the struct tags: a
\* nil pointer is written as null
MarshalGeneralNoOmitEmpty(g) ==
    LET keys == [i \in 1..Len(GeneralFields) |-> GeneralTag[GeneralFields[i]]]
        val == [k \in {keys[i] : i \in 1..Len(keys)} |->
                  g[CHOOSE f \in DOMAIN g : GeneralTag[f] = k]]
    IN [data |-> EncodeObject(keys, val), err |-> ""]

\* json.Marshal of a *ConfigGeneralSettings: fields in declaration order, a
\* nil pointer left out (omitempty)
MarshalGeneral(g) ==
    LET present == SelectSeq(GeneralFields, LAMBDA f : g[f].k # "nil")
        keys == [i \in 1..Len(present) |-> GeneralTag[present[i]]]
        val == [k \in {keys[i] : i \in 1..Len(keys)} |->
                  g[CHOOSE f \in DOMAIN g : GeneralTag[f] = k]]
    IN [data |-> EncodeObject(keys, val), err |-> ""]

\* ------------------------------------------------------------ JSON decoding
\* the scanner's message for text it rejects inside a token
ScanError(raw) ==
    CASE raw = "not-json" -> "invalid character 'o' in literal null (expecting 'u')"
      [] OTHER -> "invalid character '" \o raw \o "' looking for beginning of value"

\* the character the scanner stops at when a token is out of place
FirstChar(tok) ==
    CASE tok.t = "str" -> "\""
      [] tok.t = "num" -> ToString(tok.n)
      [] tok.t = "true" -> "t"
      [] tok.t = "false" -> "f"
      [] tok.t = "null" -> "n"
      [] OTHER -> tok.t

IsScalar(tok) == tok.t \in {"str", "num", "true", "false", "null"}

SyntaxError(tok, context) ==
    IF tok.t = "bad" THEN ScanError(tok.s[1])
    ELSE "invalid character '" \o FirstChar(tok) \o "' " \o context

\* checkValid: the scanner's pass over the whole input before any decoding;
\* "" when the text is valid JSON, else the SyntaxError text.  st is the
\* scanner's step function
RECURSIVE scan(_, _, _)
scan(toks, i, st) ==
    IF i > Len(toks)
    THEN IF st = "end" THEN "" ELSE "unexpected end of JSON input"
    ELSE LET tok == toks[i] IN
      CASE st = "beginValue" ->
             IF IsScalar(tok) THEN scan(toks, i + 1, "end")
             ELSE IF tok.t = "{" THEN scan(toks, i + 1, "objKeyOrEnd")
             ELSE IF tok.t = "[" THEN scan(toks, i + 1, "arrValueOrEnd")
             ELSE SyntaxError(tok, "looking for beginning of value")
        [] st = "objKeyOrEnd" ->
             IF tok.t = "str" THEN scan(toks, i + 1, "objColon")
             ELSE IF tok.t = "}" THEN scan(toks, i + 1, "end")
             ELSE SyntaxError(tok, "looking for beginning of object key string")
        [] st = "objColon" ->
             IF tok.t = ":" THEN scan(toks, i + 1, "objValue")
             ELSE SyntaxError(tok, "after object key")
        [] st = "objValue" ->
             IF IsScalar(tok) THEN scan(toks, i + 1, "objCommaOrEnd")
             ELSE SyntaxError(tok, "looking for beginning of value")
        [] st = "objCommaOrEnd" ->
             IF tok.t = "," THEN scan(toks, i + 1, "objKey")
             ELSE IF tok.t = "}" THEN scan(toks, i + 1, "end")
             ELSE SyntaxError(tok, "after object key:value pair")
        [] st = "objKey" ->
             IF tok.t = "str" THEN scan(toks, i + 1, "objColon")
             ELSE SyntaxError(tok, "looking for beginning of object key string")
        [] st = "arrValueOrEnd" ->
             IF IsScalar(tok) THEN scan(toks, i + 1, "arrCommaOrEnd")
             ELSE IF tok.t = "]" THEN scan(toks, i + 1, "end")
             ELSE SyntaxError(tok, "looking for beginning of value")
        [] st = "arrCommaOrEnd" ->
             IF tok.t = "," THEN scan(toks, i + 1, "arrValue")
             ELSE IF tok.t = "]" THEN scan(toks, i + 1, "end")
             ELSE SyntaxError(tok, "after array element")
        [] st = "arrValue" ->
             IF IsScalar(tok) THEN scan(toks, i + 1, "arrCommaOrEnd")
             ELSE SyntaxError(tok, "looking for beginning of value")
        [] OTHER -> SyntaxError(tok, "after top-level value")

checkValid(toks) == scan(toks, 1, "beginValue")

\* the JSON kind named in an UnmarshalTypeError
KindName(tok) ==
    CASE tok.t = "str" -> "string"
      [] tok.t = "num" -> "number"
      [] tok.t \in {"true", "false"} -> "bool"
      [] tok.t = "[" -> "array"
      [] tok.t = "{" -> "object"
      [] OTHER -> "null"

\* the Go value a scalar token decodes to
DecodeValue(tok) ==
    CASE tok.t = "true" -> BoolVal(TRUE)
      [] tok.t = "false" -> BoolVal(FALSE)
      [] tok.t = "num" -> IntVal(tok.n)
      [] tok.t = "str" -> StrVal(Unescape(tok.s))
      [] OTHER -> Nil

\* members of a valid object text: member j is key, colon, value, separator
MemberCount(toks) == (Len(toks) - 1) \div 4
MemberKey(toks, j) == LET e == toks[4 * j - 2].s IN IF e = <<>> THEN "" ELSE UnescapeChunk(e[1])
MemberTok(toks, j) == toks[4 * j]

\* the object as a map: of two members with one key the later one wins
ObjectOf(toks) ==
    LET js == 1..MemberCount(toks)
        last(k) == CHOOSE j \in js : MemberKey(toks, j) = k /\ \A h \in js : MemberKey(toks, h) = k => h <= j
    IN [k \in {MemberKey(toks, j) : j \in js} |-> DecodeValue(MemberTok(toks, last(k)))]

EmptyMap == [k \in {} |-> Nil]

\* json.Unmarshal(text, &m) for a map[string]interface{}
UnmarshalMap(toks) ==
    LET syntax == checkValid(toks) IN
    IF syntax # "" THEN [err |-> syntax, val |-> EmptyMap]
    ELSE IF toks[1].t = "{" THEN [err |-> "", val |-> ObjectOf(toks)]
    ELSE IF toks[1].t = "null" THEN [err |-> "", val |-> EmptyMap]
    ELSE [err |-> "json: cannot unmarshal " \o KindName(toks[1]) \o " into Go value of type map[string]interface {}",
          val |-> EmptyMap]

GoTypeName(kind) == CASE kind = "bool" -> "bool" [] kind = "num" -> "int" [] OTHER -> "string"
TokenKind(tok) == CASE tok.t \in {"true", "false"} -> "bool" [] tok.t = "num" -> "num" [] tok.t = "str" -> "str" [] OTHER -> "nil"

FieldOfTag(k) == CHOOSE f \in DOMAIN GeneralTag : GeneralTag[f] = k
IsTag(k) == \E f \in DOMAIN GeneralTag : GeneralTag[f] = k

\* json.Unmarshal(text, general) for a *ConfigGeneralSettings: a member whose
\* key is a field's tag sets the field, null sets it nil, a value of another
\* kind is an UnmarshalTypeError (the first one is returned); other keys are
\* skipped
UnmarshalGeneral(toks, general) ==
    LET syntax == checkValid(toks)
        js == 1..MemberCount(toks)
        mismatch(j) == /\ IsTag(MemberKey(toks, j))
                       /\ TokenKind(MemberTok(toks, j)) # "nil"
                       /\ TokenKind(MemberTok(toks, j)) # GeneralKind[FieldOfTag(MemberKey(toks, j))]
        firstBad == CHOOSE j \in js : mismatch(j) /\ \A h \in js : mismatch(h) => j <= h
        obj == ObjectOf(toks)
        set(f) == GeneralTag[f] \in DOMAIN obj /\ obj[GeneralTag[f]].k \in {"nil", GeneralKind[f]}
        val == [f \in DOMAIN general |-> IF set(f) THEN obj[GeneralTag[f]] ELSE general[f]]
    IN
    IF syntax # "" THEN [err |-> syntax, val |-> general]
    ELSE IF toks[1].t = "{" THEN
        IF \E j \in js : mismatch(j)
        THEN [err |-> "json: cannot unmarshal " \o KindName(MemberTok(toks, firstBad))
                        \o " into Go struct field ConfigGeneralSettings." \o MemberKey(toks, firstBad)
                        \o " of type " \o GoTypeName(GeneralKind[FieldOfTag(MemberKey(toks, firstBad))]),
              val |-> val]
        ELSE [err |-> "", val |-> val]
    ELSE IF toks[1].t = "null" THEN [err |-> "", val |-> general]
    ELSE [err |-> "json: cannot unmarshal " \o KindName(toks[1]) \o " into Go value of type bridge.ConfigGeneralSettings",
          val |-> general]

\* jsonDecode(jsonResponse['data']) on the Dart side
jsonDecode(data) == UnmarshalMap(data).val

\* the text of a token sequence
RenderTok(tok) ==
    LET RECURSIVE cat(_)
        cat(e) == IF e = <<>> THEN "" ELSE e[1] \o cat(Tail(e))
    IN CASE tok.t = "str" -> "\"" \o cat(tok.s) \o "\""
         [] tok.t = "num" -> ToString(tok.n)
         [] tok.t = "bad" -> cat(tok.s)
         [] OTHER -> tok.t

RECURSIVE Render(_)
Render(toks) == IF toks = <<>> THEN "" ELSE RenderTok(toks[1]) \o Render(Tail(toks))

\* ------------------------------------------------------------------- inputs
\* identifiers of the operations that only test them for emptiness
IdNames == {EmptyName, S3Box}

\* not-json
NotJson == <<BadTok("not-json")>>
\* {"allowLan":false,"port":9090,"socksPort":1080}
PatchText ==
    <<Tok("{"), StrTok(<<"allowLan">>), Tok(":"), Tok("false"), Tok(","), StrTok(<<"port">>), Tok(":"), NumTok(9090),
      Tok(","), StrTok(<<"socksPort">>), Tok(":"), NumTok(1080), Tok("}")>>
\* {"allowLan":true,"port":"x"}: allowLan decodes, port is of the wrong type
PortStringText ==
    <<Tok("{"), StrTok(<<"allowLan">>), Tok(":"), Tok("true"), Tok(","), StrTok(<<"port">>), Tok(":"),
      StrTok(<<"x">>), Tok("}")>>

\* the JSON payload arguments the client passes (patchStr, configData,
\* jsonInput)
Payloads == {NotJson, PatchText, PortStringText}

\* json.Unmarshal of each payload into a map[string]interface{} and into a
\* fresh ConfigGeneralSettings, worked out once per payload
UnmarshalledMap == [p \in Payloads |-> UnmarshalMap(p)]
UnmarshalledGeneral == [p \in Payloads |-> UnmarshalGeneral(p, ConfigGeneralSettings)]

\* the handles the client runtime passes to initNativeDartBridge; NoHandle is
\* the value of the reference before the first call
NoHandle == 0
Handles == {1, 2}

Ops == {"getGeneralConfig", "patchGeneralConfig", "getRemoteConfig", "updateRemoteConfig", "deleteRemote",
        "getSimpleData", "updateSimpleData", "getDataByName", "processData", "deleteItem"}

\* -------------------------------------------------------------------- state
VARIABLES
    dartApi,    \* the process-wide handle InitDartApi stores
    alive,      \* FALSE once the native host has aborted
    calls,      \* per call, named by its token: position, operation, arguments
    ports,      \* per token: what the client's receive port has been posted
    engine      \* the engine work done so far, per call

vars == <<dartApi, alive, calls, ports, engine>>

\* type DartResponse struct { Success bool; Message string; Data string }
DartResponse(success, message, data) == [Success |-> success, Message |-> message, Data |-> data]

IdleCall == [pc |-> "idle", op |-> "", port |-> 0, name |-> <<>>, name2 |-> <<>>, payload |-> <<>>]

Init ==
    /\ dartApi = NoHandle
    /\ alive = TRUE
    /\ calls = [c \in Tokens |-> IdleCall]
    /\ ports = [t \in Tokens |-> <<>>]
    /\ engine = {}

\* bridge.InitDartApi: the reference is set by the first call and kept
InitDartApi(api) == dartApi' = IF dartApi = NoHandle THEN api ELSE dartApi

\* initNativeDartBridge storing its argument over the reference already set
initNativeDartBridgeOverwriting ==
    /\ alive
    /\ \E api \in Handles : dartApi' = api
    /\ UNCHANGED <<alive, calls, ports, engine>>

initNativeDartBridge ==
    /\ alive
    /\ \E api \in Handles : InitDartApi(api)
    /\ UNCHANGED <<alive, calls, ports, engine>>

\* SendResponseToPort(port, resp) by call c: posts resp to the port through
\* the Dart API; with the API never initialized the post aborts the host
SendResponseToPort(c, port, resp) ==
    IF dartApi = NoHandle
    THEN alive' = FALSE /\ ports' = ports
    ELSE alive' = alive /\ ports' = [ports EXCEPT ![port] = Append(@, [env |-> resp, from |-> c])]

\* the client calls operation op on its fresh port c: the frame of the call
\* after int64(port) and C.GoString of the arguments
Called(c, op, name, name2, payload) ==
    [pc |-> "entered", op |-> op, port |-> c, name |-> name, name2 |-> name2, payload |-> payload]

\* port c is unused and the host runs
Idle(c) == alive /\ calls[c].pc = "idle"

\* call c of operation op stands at position pc
At(c, op, pc) == alive /\ calls[c].op = op /\ calls[c].pc = pc

\* the handler with frame call moves on to position pc
Goto(c, call, pc) == calls' = [calls EXCEPT ![c] = [call EXCEPT !.pc = pc]]

\* return from the handler with frame call
Return(c, call) == Goto(c, call, IF alive' THEN "done" ELSE "crashed")

\* the engine work of call c, named by the calls the handler's placeholders
\* stand for
Work(c, what) == engine' = engine \cup {[call |-> c, work |-> w] : w \in what}

\* Failure with the Message field left out of the literal
FailureNoMessage(message) == DartResponse(FALSE, "", <<>>)

\* &DartResponse{Success: false, Message: ...}
Failure(message) == DartResponse(FALSE, message, <<>>)

\* ------------------------------------------------------------- exports.go
\* GeneralConfig reporting the port a patch has set
GeneralConfigPatched ==
    [ConfigGeneralSettings EXCEPT !.AllowLan = ptrBool(TRUE),
                                  !.BindAddress = ptrString(<<"0.0.0.0">>),
                                  !.Port = ptrInt(IF \E w \in engine : w.work = "ReCreateHTTP" THEN 9090 ELSE 8080)]

\* general := &ConfigGeneralSettings{AllowLan: ..., BindAddress: ..., Port: ...}
GeneralConfig ==
    [ConfigGeneralSettings EXCEPT !.AllowLan = ptrBool(TRUE),
                                  !.BindAddress = ptrString(<<"0.0.0.0">>),
                                  !.Port = ptrInt(8080)]

getGeneralConfig(c) ==
    /\ Idle(c)
    /\ LET call == Called(c, "getGeneralConfig", <<>>, <<>>, <<>>)
           m == MarshalGeneral(GeneralConfig)
       IN /\ IF m.err # ""
             THEN SendResponseToPort(c, call.port, Failure(m.err))
             ELSE SendResponseToPort(c, call.port, DartResponse(TRUE, "", m.data))
          /\ Return(c, call)
    /\ Work(c, {"GetGeneral"})
    /\ UNCHANGED dartApi

\* patchGeneralConfigDecode returning on the error without a response
patchGeneralConfigDecodeSilent(c) ==
    \E patchStr \in Payloads :
        /\ Idle(c)
        /\ LET call == Called(c, "patchGeneralConfig", <<>>, <<>>, patchStr)
               r == UnmarshalledGeneral[call.payload]
           IN IF r.err # ""
              THEN Goto(c, call, "done") /\ UNCHANGED <<alive, ports>>
              ELSE Goto(c, call, "decoded") /\ UNCHANGED <<alive, ports>>
        /\ UNCHANGED <<dartApi, engine>>

\* patchGeneralConfigDecode with the return after the failure response missing
patchGeneralConfigDecodeNoReturn(c) ==
    \E patchStr \in Payloads :
        /\ Idle(c)
        /\ LET call == Called(c, "patchGeneralConfig", <<>>, <<>>, patchStr)
               r == UnmarshalledGeneral[call.payload]
           IN IF r.err # ""
              THEN SendResponseToPort(c, call.port, Failure(r.err))
                   /\ Goto(c, call, IF alive' THEN "decoded" ELSE "crashed")
              ELSE Goto(c, call, "decoded") /\ UNCHANGED <<alive, ports>>
        /\ UNCHANGED <<dartApi, engine>>

\* entry, json.Unmarshal([]byte(patch), general) and the early return
patchGeneralConfigDecode(c) ==
    \E patchStr \in Payloads :
        /\ Idle(c)
        /\ LET call == Called(c, "patchGeneralConfig", <<>>, <<>>, patchStr)
               r == UnmarshalledGeneral[call.payload]
           IN IF r.err # ""
              THEN SendResponseToPort(c, call.port, Failure(r.err)) /\ Return(c, call)
              ELSE Goto(c, call, "decoded") /\ UNCHANGED <<alive, ports>>
        /\ UNCHANGED <<dartApi, engine>>

\* the setters of the fields the patch provides
PatchSetters(general) ==
    {w \in {"SetAllowLan", "SetBindAddress", "ReCreateHTTP", "SetLevel"} :
        \/ w = "SetAllowLan" /\ general.AllowLan.k # "nil"
        \/ w = "SetBindAddress" /\ general.BindAddress.k # "nil"
        \/ w = "ReCreateHTTP" /\ general.Port.k # "nil"
        \/ w = "SetLevel" /\ general.LogLevel.k # "nil"}

patchGeneralConfigApply(c) ==
    /\ At(c, "patchGeneralConfig", "decoded")
    /\ Work(c, PatchSetters(UnmarshalledGeneral[calls[c].payload].val))
    /\ SendResponseToPort(c, calls[c].port, DartResponse(TRUE, "", <<>>))
    /\ Return(c, calls[c])
    /\ UNCHANGED dartApi

patchGeneralConfig(c) == patchGeneralConfigDecode(c) \/ patchGeneralConfigApply(c)

\* remoteConfig with the values of "name" and "type" swapped
remoteConfigSwapped(name) ==
    [k \in {"name", "type", "url"} |->
        CASE k = "name" -> StrVal(<<"s3">>)
          [] k = "type" -> StrVal(name)
          [] OTHER -> StrVal(<<"https://example.com">>)]

\* remoteConfig := map[string]interface{}{"name": name, "type": "s3", "url": ...}
remoteConfig(name) ==
    [k \in {"name", "type", "url"} |->
        CASE k = "name" -> StrVal(name)
          [] k = "type" -> StrVal(<<"s3">>)
          [] OTHER -> StrVal(<<"https://example.com">>)]

getRemoteConfig(c) ==
    \E remoteName \in Names :
        /\ Idle(c)
        /\ LET call == Called(c, "getRemoteConfig", remoteName, <<>>, <<>>)
               m == MarshalMap(remoteConfig(call.name))
           IN /\ IF m.err # ""
                 THEN SendResponseToPort(c, call.port, Failure(m.err))
                 ELSE SendResponseToPort(c, call.port, DartResponse(TRUE, "", m.data))
              /\ Return(c, call)
        /\ Work(c, {"getConfigForRemote"})
        /\ UNCHANGED dartApi

updateRemoteConfigDecode(c) ==
    \E remoteName \in IdNames, configData \in Payloads :
        /\ Idle(c)
        /\ LET call == Called(c, "updateRemoteConfig", remoteName, <<>>, configData)
               r == UnmarshalledMap[call.payload]
           IN IF r.err # ""
              THEN SendResponseToPort(c, call.port, Failure(r.err)) /\ Return(c, call)
              ELSE Goto(c, call, "decoded") /\ UNCHANGED <<alive, ports>>
        /\ UNCHANGED <<dartApi, engine>>

\* updateRemoteConfigApply handing the configuration it applied back as data
updateRemoteConfigApplyEchoing(c) ==
    /\ At(c, "updateRemoteConfig", "decoded")
    /\ Work(c, {"setConfigValue " \o k : k \in DOMAIN UnmarshalledMap[calls[c].payload].val})
    /\ SendResponseToPort(c, calls[c].port, DartResponse(TRUE, "", calls[c].payload))
    /\ Return(c, calls[c])
    /\ UNCHANGED dartApi

\* for key, value := range remoteConfig { setConfigValue(name, key, value) }
updateRemoteConfigApply(c) ==
    /\ At(c, "updateRemoteConfig", "decoded")
    /\ Work(c, {"setConfigValue " \o k : k \in DOMAIN UnmarshalledMap[calls[c].payload].val})
    /\ SendResponseToPort(c, calls[c].port, DartResponse(TRUE, "", <<>>))
    /\ Return(c, calls[c])
    /\ UNCHANGED dartApi

updateRemoteConfig(c) == updateRemoteConfigDecode(c) \/ updateRemoteConfigApply(c)

\* deleteRemote reporting success with a message
deleteRemoteWithMessage(c) ==
    \E remoteName \in IdNames :
        /\ Idle(c)
        /\ LET call == Called(c, "deleteRemote", remoteName, <<>>, <<>>)
           IN SendResponseToPort(c, call.port, DartResponse(TRUE, "deleted", <<>>)) /\ Return(c, call)
        /\ Work(c, {"deleteConfigRemote"})
        /\ UNCHANGED dartApi

deleteRemote(c) ==
    \E remoteName \in IdNames :
        /\ Idle(c)
        /\ LET call == Called(c, "deleteRemote", remoteName, <<>>, <<>>)
           IN SendResponseToPort(c, call.port, DartResponse(TRUE, "", <<>>)) /\ Return(c, call)
        /\ Work(c, {"deleteConfigRemote"})
        /\ UNCHANGED dartApi

\* ------------------------------------------------------ QUICK_REFERENCE.go
\* simpleData counting the engine work done so far
simpleDataCounting ==
    [k \in {"key", "count"} |-> IF k = "key" THEN StrVal(<<"value">>) ELSE IntVal(42 + Cardinality(engine))]

\* result := map[string]interface{}{"key": "value", "count": 42}
simpleData ==
    [k \in {"key", "count"} |-> IF k = "key" THEN StrVal(<<"value">>) ELSE IntVal(42)]

getSimpleData(c) ==
    /\ Idle(c)
    /\ LET call == Called(c, "getSimpleData", <<>>, <<>>, <<>>)
           m == MarshalMap(simpleData)
       IN /\ IF m.err # ""
             THEN SendResponseToPort(c, call.port, Failure(m.err))
             ELSE SendResponseToPort(c, call.port, DartResponse(TRUE, "", m.data))
          /\ Return(c, call)
    /\ Work(c, {"getSimpleData logic"})
    /\ UNCHANGED dartApi

updateSimpleDataDecode(c) ==
    \E jsonInput \in Payloads :
        /\ Idle(c)
        /\ LET call == Called(c, "updateSimpleData", <<>>, <<>>, jsonInput)
               r == UnmarshalledMap[call.payload]
           IN IF r.err # ""
              THEN SendResponseToPort(c, call.port, Failure(r.err)) /\ Return(c, call)
              ELSE Goto(c, call, "decoded") /\ UNCHANGED <<alive, ports>>
        /\ UNCHANGED <<dartApi, engine>>

\* for key, value := range config { ... }
updateSimpleDataApply(c) ==
    /\ At(c, "updateSimpleData", "decoded")
    /\ Work(c, {"apply " \o k : k \in DOMAIN UnmarshalledMap[calls[c].payload].val})
    /\ SendResponseToPort(c, calls[c].port, DartResponse(TRUE, "", <<>>))
    /\ Return(c, calls[c])
    /\ UNCHANGED dartApi

updateSimpleData(c) == updateSimpleDataDecode(c) \/ updateSimpleDataApply(c)

\* entry and: if nameStr == "" { SendResponseToPort(...); return }
getDataByNameValidate(c) ==
    \E name \in Names :
        /\ Idle(c)
        /\ LET call == Called(c, "getDataByName", name, <<>>, <<>>)
           IN IF call.name = <<>>
              THEN SendResponseToPort(c, call.port, Failure("name parameter cannot be empty")) /\ Return(c, call)
              ELSE Goto(c, call, "checked") /\ UNCHANGED <<alive, ports>>
        /\ UNCHANGED <<dartApi, engine>>

\* result := map[string]interface{}{"name": nameStr, "data": "result for " + nameStr}
dataByName(nameStr) ==
    [k \in {"name", "data"} |->
        IF k = "name" THEN StrVal(nameStr) ELSE StrVal(<<"result for ">> \o nameStr)]

\* json.Marshal(result), worked out once per name
MarshalledByName == [n \in Names |-> MarshalMap(dataByName(n))]

\* getDataByNameMarshal answering on a port kept in a package variable that
\* the latest call entered has overwritten
getDataByNameMarshalSharedPort(c) ==
    /\ At(c, "getDataByName", "checked")
    /\ LET m == MarshalledByName[calls[c].name]
           latest == CHOOSE d \in Tokens : calls[d].pc # "idle" /\ \A e \in Tokens : calls[e].pc # "idle" => e <= d
       IN SendResponseToPort(c, calls[latest].port, DartResponse(TRUE, "", m.data))
    /\ Return(c, calls[c])
    /\ Work(c, {"getDataByName logic"})
    /\ UNCHANGED dartApi

getDataByNameMarshal(c) ==
    /\ At(c, "getDataByName", "checked")
    /\ LET m == MarshalledByName[calls[c].name]
       IN IF m.err # ""
          THEN SendResponseToPort(c, calls[c].port, Failure(m.err))
          ELSE SendResponseToPort(c, calls[c].port, DartResponse(TRUE, "", m.data))
    /\ Return(c, calls[c])
    /\ Work(c, {"getDataByName logic"})
    /\ UNCHANGED dartApi

getDataByName(c) == getDataByNameValidate(c) \/ getDataByNameMarshal(c)

\* entry and: if src == "" || dst == "" { SendResponseToPort(...); return }
processDataValidate(c) ==
    \E source \in IdNames, destination \in IdNames :
        /\ Idle(c)
        /\ LET call == Called(c, "processData", source, destination, <<>>)
           IN IF call.name = <<>> \/ call.name2 = <<>>
              THEN SendResponseToPort(c, call.port, Failure("source and destination cannot be empty"))
                   /\ Return(c, call)
              ELSE Goto(c, call, "checked") /\ UNCHANGED <<alive, ports>>
        /\ UNCHANGED <<dartApi, engine>>

processDataProcess(c) ==
    /\ At(c, "processData", "checked")
    /\ Work(c, {"processData logic"})
    /\ SendResponseToPort(c, calls[c].port, DartResponse(TRUE, "", <<>>))
    /\ Return(c, calls[c])
    /\ UNCHANGED dartApi

processData(c) == processDataValidate(c) \/ processDataProcess(c)

\* deleteItemValidate with the return after the failure response missing
deleteItemValidateNoReturn(c) ==
    \E itemID \in IdNames :
        /\ Idle(c)
        /\ LET call == Called(c, "deleteItem", itemID, <<>>, <<>>)
           IN IF call.name = <<>>
              THEN SendResponseToPort(c, call.port, Failure("itemID cannot be empty"))
                   /\ Goto(c, call, IF alive' THEN "checked" ELSE "crashed")
              ELSE Goto(c, call, "checked") /\ UNCHANGED <<alive, ports>>
        /\ UNCHANGED <<dartApi, engine>>

\* entry and: if id == "" { SendResponseToPort(...); return }
deleteItemValidate(c) ==
    \E itemID \in IdNames :
        /\ Idle(c)
        /\ LET call == Called(c, "deleteItem", itemID, <<>>, <<>>)
           IN IF call.name = <<>>
              THEN SendResponseToPort(c, call.port, Failure("itemID cannot be empty")) /\ Return(c, call)
              ELSE Goto(c, call, "checked") /\ UNCHANGED <<alive, ports>>
        /\ UNCHANGED <<dartApi, engine>>

\* deleteItemDelete waiting until no other call is running
deleteItemDeleteWhenQuiet(c) ==
    /\ At(c, "deleteItem", "checked")
    /\ \A d \in Tokens \ {c} : calls[d].pc \notin {"decoded", "checked"}
    /\ Work(c, {"deleteItem logic"})
    /\ SendResponseToPort(c, calls[c].port, DartResponse(TRUE, "", <<>>))
    /\ Return(c, calls[c])
    /\ UNCHANGED dartApi

deleteItemDelete(c) ==
    /\ At(c, "deleteItem", "checked")
    /\ Work(c, {"deleteItem logic"})
    /\ SendResponseToPort(c, calls[c].port, DartResponse(TRUE, "", <<>>))
    /\ Return(c, calls[c])
    /\ UNCHANGED dartApi

deleteItem(c) == deleteItemValidate(c) \/ deleteItemDelete(c)

\* ------------------------------------------------------------ specification
\* a step of the dispatch function called on port c
Run(c) ==
    \/ getGeneralConfig(c)
    \/ patchGeneralConfig(c)
    \/ getRemoteConfig(c)
    \/ updateRemoteConfig(c)
    \/ deleteRemote(c)
    \/ getSimpleData(c)
    \/ updateSimpleData(c)
    \/ getDataByName(c)
    \/ processData(c)
    \/ deleteItem(c)

Next ==
    \/ initNativeDartBridge
    \/ \E c \in Tokens : Run(c)

Spec == Init /\ [][Next]_vars

TypeOK ==
    /\ dartApi \in Handles \cup {NoHandle}
    /\ alive \in BOOLEAN
    /\ \A c \in Tokens :
         /\ calls[c].pc \in {"idle", "decoded", "checked", "done", "crashed"}
         /\ calls[c].pc # "idle" => calls[c].op \in Ops /\ calls[c].port \in Tokens

\* a handler that has not returned yet
InFlight(c) == calls[c].pc \in {"decoded", "checked"}

\* the rest of a handler once it is past its early returns
Continue(c) ==
    \/ patchGeneralConfigApply(c)
    \/ updateRemoteConfigApply(c)
    \/ updateSimpleDataApply(c)
    \/ getDataByNameMarshal(c)
    \/ processDataProcess(c)
    \/ deleteItemDelete(c)

\* a handler is straight-line code on its caller's thread: once called it runs
\* on until it returns
FairSpec == Spec /\ \A c \in Tokens : WF_vars(Continue(c))

\* ------------------------------------------------------------------- claims
\* the posts made so far: <<t, i>> is the i-th message posted to port t
Posts == UNION {{<<t, i>> : i \in 1..Len(ports[t])} : t \in Tokens}
PostOf(p) == ports[p[1]][p[2]]
\* the posts call c made
PostsBy(c) == {p \in Posts : PostOf(p).from = c}
Done(c) == calls[c].pc = "done"

\* C1: a call of a dispatch function never sends more than one envelope,
\* whatever path it takes
C1_AtMostOneSend == \A c \in Tokens : Cardinality(PostsBy(c)) <= 1

\* a call that took the decode-error path has returned with one envelope sent
C1_Witness ==
    \E c \in Tokens :
        /\ Done(c) /\ calls[c].op = "updateSimpleData" /\ calls[c].payload = NotJson
        /\ Cardinality(PostsBy(c)) = 1

\* C2: no call returns without having sent its envelope, and every call that
\* is running with the bridge initialized eventually returns normally having
\* sent it
C2_EventuallyResponds ==
    \A c \in Tokens :
        /\ [](Done(c) => Cardinality(PostsBy(c)) = 1)
        /\ (InFlight(c) /\ dartApi # NoHandle) ~> (Done(c) /\ Cardinality(PostsBy(c)) = 1)

\* a call that went through validation and the engine work has returned with
\* its envelope sent
C2_Witness ==
    \E c \in Tokens :
        /\ Done(c) /\ calls[c].op = "processData" /\ calls[c].name # <<>> /\ calls[c].name2 # <<>>
        /\ dartApi # NoHandle /\ Cardinality(PostsBy(c)) = 1

\* the error json.Unmarshal returns for the payload of call c
DecodeError(c) ==
    IF calls[c].op = "patchGeneralConfig"
    THEN UnmarshalGeneral(calls[c].payload, ConfigGeneralSettings).err
    ELSE UnmarshalMap(calls[c].payload).err

TakesPayload(c) == calls[c].op \in {"patchGeneralConfig", "updateRemoteConfig", "updateSimpleData"}

\* C3: a payload that fails to decode is answered with success=false, the
\* decode error's text as message (never empty) and empty data; for the
\* payload not-json the text is the scanner's complaint about the literal
C3_DecodeFailureEnvelope ==
    /\ \A c \in Tokens : (Done(c) /\ TakesPayload(c) /\ DecodeError(c) # "") => PostsBy(c) # {}
    /\ \A p \in Posts :
         LET c == PostOf(p).from IN
         (TakesPayload(c) /\ DecodeError(c) # "") =>
            /\ PostOf(p).env = [Success |-> FALSE, Message |-> DecodeError(c), Data |-> <<>>]
            /\ PostOf(p).env.Message # ""
            /\ calls[c].payload = NotJson =>
                 PostOf(p).env.Message = "invalid character 'o' in literal null (expecting 'u')"

\* updateRemoteConfig(name="s3box", data="not-json") has been answered
C3_Witness ==
    \E p \in Posts :
        LET c == PostOf(p).from IN
        calls[c].op = "updateRemoteConfig" /\ calls[c].name = S3Box /\ calls[c].payload = NotJson

\* the call has a required identifier argument and it is empty
EmptyIdentifier(c) ==
    \/ calls[c].op \in {"getRemoteConfig", "updateRemoteConfig", "deleteRemote", "getDataByName", "deleteItem"}
          /\ calls[c].name = <<>>
    \/ calls[c].op = "processData" /\ (calls[c].name = <<>> \/ calls[c].name2 = <<>>)

WorkOf(c) == {w \in engine : w.call = c}

\* C4: on an initialized bridge a call with an empty required identifier is
\* answered with a failure envelope and its engine work is never done
C4_EmptyIdentifierRejected ==
    \A c \in Tokens :
        (alive /\ EmptyIdentifier(c)) =>
            /\ WorkOf(c) = {}
            /\ \A p \in PostsBy(c) : ~PostOf(p).env.Success

\* C5: on an initialized bridge deleteRemote with an empty name is answered
\* with the failure "itemID cannot be empty" and the delete is never attempted
C5_DeleteRemoteEmptyName ==
    \A c \in Tokens :
        (alive /\ calls[c].op = "deleteRemote" /\ calls[c].name = <<>>) =>
            /\ WorkOf(c) = {}
            /\ Done(c) => PostsBy(c) # {}
            /\ \A p \in PostsBy(c) :
                 PostOf(p).env = [Success |-> FALSE, Message |-> "itemID cannot be empty", Data |-> <<>>]

\* C6: getGeneralConfig answers, whatever its token, with success=true, an
\* empty message and the JSON object of exactly allowLan=true,
\* bindAddress="0.0.0.0" and port=8080
C6_GeneralConfigEnvelope ==
    /\ \A c \in Tokens : (Done(c) /\ calls[c].op = "getGeneralConfig") => PostsBy(c) # {}
    /\ \A p \in Posts :
         calls[PostOf(p).from].op = "getGeneralConfig" =>
            /\ PostOf(p).env.Success
            /\ PostOf(p).env.Message = ""
            /\ Render(PostOf(p).env.Data) = "{\"allowLan\":true,\"bindAddress\":\"0.0.0.0\",\"port\":8080}"
            /\ DOMAIN jsonDecode(PostOf(p).env.Data) = {"allowLan", "bindAddress", "port"}

\* getGeneralConfig has been answered on the highest token
C6_Witness ==
    \E p \in Posts : calls[PostOf(p).from].op = "getGeneralConfig" /\ p[1] = MaxToken

\* C7: every envelope is posted to the token of the call that produced it, and
\* a call that has returned has its envelope on its own token
C7_NoCrossDelivery ==
    /\ \A p \in Posts : calls[PostOf(p).from].port = p[1]
    /\ \A c \in Tokens : Done(c) => \E p \in PostsBy(c) : p[1] = calls[c].port

\* of two overlapping calls of one operation the later one has been answered
\* on its token while the earlier one is still running
C7_Witness ==
    /\ calls[1].op = "getDataByName" /\ InFlight(1) /\ ports[1] = <<>>
    /\ calls[2].op = "getDataByName" /\ Done(2) /\ Len(ports[2]) = 1

\* C8: in every envelope sent, message is non-empty only if success is false
\* and data is non-empty only if success is true
C8_EnvelopeInvariant ==
    \A p \in Posts :
        /\ PostOf(p).env.Message # "" => ~PostOf(p).env.Success
        /\ PostOf(p).env.Data # <<>> => PostOf(p).env.Success
        /\ ~(PostOf(p).env.Message # "" /\ PostOf(p).env.Data # <<>>)

\* a failure envelope with a message and a success envelope with data have
\* both been sent
C8_Witness ==
    /\ \E p \in Posts : PostOf(p).env.Message # "" /\ PostOf(p).env.Data = <<>>
    /\ \E p \in Posts : PostOf(p).env.Data # <<>> /\ PostOf(p).env.Message = ""

Getter(c) == calls[c].op \in {"getGeneralConfig", "getSimpleData", "getRemoteConfig", "getDataByName"}

\* C9: two calls of one getter with the same arguments are answered with
\* envelopes equal in success, message and data (whatever calls ran between)
C9_GetterIdempotent ==
    \A p, q \in Posts :
        LET c == PostOf(p).from
            d == PostOf(q).from
        IN (Getter(c) /\ calls[c].op = calls[d].op /\ calls[c].name = calls[d].name)
              => PostOf(p).env = PostOf(q).env

\* one getter has been called and answered twice with the same arguments
C9_Witness ==
    \E p, q \in Posts :
        LET c == PostOf(p).from
            d == PostOf(q).from
        IN c # d /\ Getter(c) /\ calls[c].op = calls[d].op /\ calls[c].name = calls[d].name

\* the structured result a getter call encodes, as the map of its fields
ResultOf(c) ==
    CASE calls[c].op = "getGeneralConfig" ->
           [k \in {GeneralTag[f] : f \in {g \in DOMAIN GeneralConfig : GeneralConfig[g].k # "nil"}} |->
               GeneralConfig[FieldOfTag(k)]]
      [] calls[c].op = "getSimpleData" -> simpleData
      [] calls[c].op = "getRemoteConfig" -> remoteConfig(calls[c].name)
      [] OTHER -> dataByName(calls[c].name)

\* decoding data gives back the result, and its name is the name passed in
RoundTrips(p) ==
    LET c == PostOf(p).from
        decoded == jsonDecode(PostOf(p).env.Data)
    IN /\ decoded = ResultOf(c)
       /\ calls[c].op \in {"getRemoteConfig", "getDataByName"} =>
            "name" \in DOMAIN decoded /\ decoded["name"] = StrVal(calls[c].name)

\* C10 as stated: every successful getter call round-trips, for every name
C10_RoundTripEveryName ==
    \A p \in Posts :
        (Getter(PostOf(p).from) /\ PostOf(p).env.Success) => RoundTrips(p)

\* C10: every successful getter call whose name argument is valid UTF-8
\* round-trips: decoding data gives back the encoded result, and for
\* getRemoteConfig and getDataByName its name field is the name passed in
C10_RoundTripValidNames ==
    \A p \in Posts :
        (Getter(PostOf(p).from) /\ PostOf(p).env.Success /\ ValidUTF8(calls[PostOf(p).from].name))
            => RoundTrips(p)

\* a name holding characters the encoder escapes has gone through the round
\* trip
C10_Witness ==
    \E p \in Posts :
        LET c == PostOf(p).from IN
        /\ calls[c].op \in {"getRemoteConfig", "getDataByName"} /\ calls[c].name = QuotedName
        /\ PostOf(p).env.Success
        /\ \E i \in 1..Len(PostOf(p).env.Data) :
              PostOf(p).env.Data[i].s = Escape(QuotedName) /\ PostOf(p).env.Data[i].s # QuotedName

\* C11: a patchGeneralConfig, updateRemoteConfig or updateSimpleData call whose
\* payload fails to decode returns in the step that sends the failure
\* envelope, that step leaves the engine as it was, and no engine work is ever
\* done for the call (no setter, not even for a field that did decode)
C11_DecodeFailureNoWork ==
    /\ [](\A c \in Tokens : (TakesPayload(c) /\ DecodeError(c) # "") => WorkOf(c) = {})
    /\ [][\A c \in Tokens :
            (calls[c].pc = "idle" /\ TakesPayload(c)' /\ (DecodeError(c) # "")') =>
                /\ engine' = engine
                /\ calls'[c].pc \in {"done", "crashed"}]_vars

\* a patch whose allowLan decoded before its port failed has been answered and
\* the call has returned, while engine work of another call is on record
C11_Witness ==
    \E c \in Tokens :
        /\ Done(c) /\ calls[c].op = "patchGeneralConfig" /\ calls[c].payload = PortStringText
        /\ UnmarshalledGeneral[PortStringText].err # ""
        /\ UnmarshalledGeneral[PortStringText].val.AllowLan.k # "nil"
        /\ PostsBy(c) # {} /\ WorkOf(c) = {} /\ engine # {}

Serialized(c) ==
    CASE calls[c].op = "getGeneralConfig" -> MarshalGeneral(GeneralConfig).data
      [] calls[c].op = "getSimpleData" -> MarshalMap(simpleData).data
      [] calls[c].op = "getRemoteConfig" -> MarshalMap(remoteConfig(calls[c].name)).data
      [] OTHER -> MarshalledByName[calls[c].name].data

\* C13: a success envelope of getGeneralConfig, getRemoteConfig, getSimpleData
\* or getDataByName has non-empty data, the serialized result of the call, and
\* an empty message; a success envelope of any other operation has empty data
\* and an empty message
C13_DataFollowsKind ==
    \A p \in Posts :
        LET c == PostOf(p).from IN
        PostOf(p).env.Success =>
            IF Getter(c)
            THEN /\ PostOf(p).env.Data # <<>>
                 /\ PostOf(p).env.Data = Serialized(c)
                 /\ PostOf(p).env.Message = ""
            ELSE PostOf(p).env = [Success |-> TRUE, Message |-> "", Data |-> <<>>]

\* a getter and an update that got past decoding have both been answered with
\* success
C13_Witness ==
    /\ \E p \in Posts :
          calls[PostOf(p).from].op = "getRemoteConfig" /\ PostOf(p).env.Success /\ PostOf(p).env.Data # <<>>
    /\ \E p \in Posts :
          calls[PostOf(p).from].op = "updateRemoteConfig" /\ PostOf(p).env.Success

\* the envelope the dispatch function sends for the frame call when no other
\* call runs: its statements read in order
AloneEnvelope(call) ==
    LET ok == DartResponse(TRUE, "", <<>>)
        decoded(r) == IF r.err # "" THEN Failure(r.err) ELSE ok
        encoded(m) == IF m.err # "" THEN Failure(m.err) ELSE DartResponse(TRUE, "", m.data)
    IN CASE call.op = "getGeneralConfig" -> encoded(MarshalGeneral(GeneralConfig))
         [] call.op = "patchGeneralConfig" -> decoded(UnmarshalledGeneral[call.payload])
         [] call.op = "getRemoteConfig" -> encoded(MarshalMap(remoteConfig(call.name)))
         [] call.op = "updateRemoteConfig" -> decoded(UnmarshalledMap[call.payload])
         [] call.op = "deleteRemote" -> ok
         [] call.op = "getSimpleData" -> encoded(MarshalMap(simpleData))
         [] call.op = "updateSimpleData" -> decoded(UnmarshalledMap[call.payload])
         [] call.op = "getDataByName" ->
              IF call.name = <<>> THEN Failure("name parameter cannot be empty")
              ELSE encoded(MarshalledByName[call.name])
         [] call.op = "processData" ->
              IF call.name = <<>> \/ call.name2 = <<>>
              THEN Failure("source and destination cannot be empty") ELSE ok
         [] OTHER -> IF call.name = <<>> THEN Failure("itemID cannot be empty") ELSE ok

\* C14: whatever the interleaving, the envelope a call sends is the one the
\* same call sends when it runs alone, and on an initialized bridge a call
\* that is running can always take its next step and respond, whatever the
\* other calls are doing
C14_CallsIndependent ==
    /\ \A p \in Posts : PostOf(p).env = AloneEnvelope(calls[PostOf(p).from])
    /\ \A c \in Tokens : (dartApi # NoHandle /\ InFlight(c)) => ENABLED Continue(c)

\* updateRemoteConfig is running on token 1, past its decoding, while
\* deleteItem on token 2 has gone through both its steps and been answered
C14_Witness ==
    /\ calls[1].op = "updateRemoteConfig" /\ InFlight(1) /\ ports[1] = <<>>
    /\ calls[2].op = "deleteItem" /\ calls[2].name # <<>> /\ Done(2)
    /\ Len(ports[2]) = 1 /\ ports[2][1].env.Success

\* the setter that applies field f of ConfigGeneralSettings: the one named in
\* the field's block of patchGeneralConfig, and for a field that has no block
\* the name a setter of it would have
FieldSetter(f) ==
    CASE f = "AllowLan" -> "SetAllowLan"
      [] f = "BindAddress" -> "SetBindAddress"
      [] f = "Port" -> "ReCreateHTTP"
      [] f = "LogLevel" -> "SetLevel"
      [] OTHER -> "Set" \o f

\* C15: a patchGeneralConfig call that succeeded has applied the setter of a
\* field of ConfigGeneralSettings exactly if the decoded patch holds the field
\* (non-null), for each of the eight fields
C15_PatchAppliesProvidedFields ==
    \A c \in Tokens :
        (Done(c) /\ calls[c].op = "patchGeneralConfig" /\ \E p \in PostsBy(c) : PostOf(p).env.Success) =>
            \A f \in DOMAIN ConfigGeneralSettings :
                ([call |-> c, work |-> FieldSetter(f)] \in engine)
                    <=> (UnmarshalledGeneral[calls[c].payload].val[f].k # "nil")

====
